---- MODULE Spec2Model ----
(***************************************************************************)
(* Model of the school timetable widget:                                   *)
(*   SettingsManager.get_current_period, load_time_settings,               *)
(*   save_time_settings, save_widget_position, create_backup               *)
(*                                   (src/src/utils/settings_manager.py)   *)
(*   Widget.__init__, update_current_period, set_next_update_timer,        *)
(*   show_time_dialog, apply_saved_position, update_styles, closeEvent,    *)
(*   DragResizeMixin                                                       *)
(*                                         (src/src/gui/widget.py)         *)
(*   SettingsDialog.apply_settings, reset_widget_position                  *)
(*                                 (src/src/gui/dialogs/settings_dialog.py) *)
(*   ApplicationManager.cleanup_resources, signal_handler, run, safe_exit, *)
(*   final_cleanup                                   (src/src/main.py)     *)
(*                                                                         *)
(* Times of day are QTime values, modelled as milliseconds since midnight. *)
(* A dict is modelled as a sequence of entries in insertion order, which   *)
(* is the order in which Python iterates over it.                          *)
(***************************************************************************)
EXTENDS Integers, Sequences, FiniteSets, TLC

(* ------------------------------------------------------------------ *)
(* Values                                                               *)
(* ------------------------------------------------------------------ *)

\* Python None (also the value of dict.get on a missing key).
None == 0 - 1

\* Milliseconds in a day (QTime wraps addSecs modulo one day).
MSECS_PER_DAY == 24 * 60 * 60 * 1000

\* QTime(h, m) / QTime(h, m, s, ms) as milliseconds since midnight.
QTime(h, m, s, ms) == ((h * 60 + m) * 60 + s) * 1000 + ms

\* Python truthiness of a period id or None: None and 0 are falsy.
Truthy(x) == x # None /\ x # 0

\* Truthiness of dict.get(...).get("start"): None is falsy, a valid QTime is
\* truthy (PyQt: bool(QTime) is "not isNull()", midnight included).
TimeTruthy(t) == t # None

\* QTime.msecsTo: milliseconds from a to b, negative when b is earlier.
msecsTo(a, b) == b - a

\* QTime.addSecs: wraps around midnight.
addSecs(t, secs) == (t + secs * 1000) % MSECS_PER_DAY

min(a, b) == IF a <= b THEN a ELSE b

max(a, b) == IF a >= b THEN a ELSE b

(* ------------------------------------------------------------------ *)
(* Program constants (src/src/gui/widget.py)                            *)
(* ------------------------------------------------------------------ *)

\* next_update_msec = 60000 (the polling baseline).
BaselineMsec == 60000

\* msec_to_end + 1000
EndMargin == 1000

\* msec_to_start + 1000
StartMargin == 1000

\* msec_to_warning + 500
WarningMargin == 500

\* min(next_update_msec, 600000)
MaxUpdateMsec == 600000

\* max(1000, next_update_msec)
MinUpdateMsec == 1000

\* self.timer.start(60000) in Widget.__init__
InitialInterval == 60000

\* the highest period id (next_period is None after period 7)
LastPeriod == 7

(* ------------------------------------------------------------------ *)
(* Bounds and inputs                                                    *)
(* ------------------------------------------------------------------ *)

\* Evaluations are followed up to this many minutes after WindowStart.
WindowMinutes == 15

\* Number of times the user accepts the time-range dialog in one run.
MaxDialogs == 1

WindowStart == QTime(9, 47, 0, 0)

WindowEnd == WindowStart + WindowMinutes * 60000

Entry(p, s, e) == [period |-> p, start |-> s, end |-> e]

\* The table of the specification's examples: {1: 09:00-09:50, 2: 10:00-10:50}.
ExampleTable ==
    << Entry(1, QTime(9, 0, 0, 0), QTime(9, 50, 0, 0)),
       Entry(2, QTime(10, 0, 0, 0), QTime(10, 50, 0, 0)) >>

\* The same periods inserted in the opposite order.
ReversedTable ==
    << Entry(2, QTime(10, 0, 0, 0), QTime(10, 50, 0, 0)),
       Entry(1, QTime(9, 0, 0, 0), QTime(9, 50, 0, 0)) >>

\* Overlapping periods, in both iteration orders.
OverlapTable ==
    << Entry(1, QTime(9, 0, 0, 0), QTime(9, 50, 0, 0)),
       Entry(2, QTime(9, 49, 0, 0), QTime(10, 30, 0, 0)) >>

OverlapReversed ==
    << Entry(2, QTime(9, 49, 0, 0), QTime(10, 30, 0, 0)),
       Entry(1, QTime(9, 0, 0, 0), QTime(9, 50, 0, 0)) >>

\* The last two periods of the day (period 7 has no next period).
LastTable ==
    << Entry(6, QTime(9, 0, 0, 0), QTime(9, 50, 0, 0)),
       Entry(7, QTime(9, 55, 0, 0), QTime(10, 0, 0, 0)) >>

\* The first period still ahead, period 2 not defined.
AheadTable ==
    << Entry(1, QTime(9, 56, 0, 0), QTime(9, 58, 0, 0)),
       Entry(3, QTime(10, 0, 0, 0), QTime(10, 50, 0, 0)) >>

Tables ==
    { ExampleTable, ReversedTable, OverlapTable, OverlapReversed,
      LastTable, AheadTable }

\* Tables the user can leave the time-range dialog with.
EditedTables == { ExampleTable, AheadTable }

\* Instants at which the widget may be constructed.
StartTimes ==
    { QTime(9, 47, 0, 0), QTime(9, 49, 0, 0), QTime(9, 49, 30, 0),
      QTime(9, 50, 0, 0), QTime(9, 50, 0, 1), QTime(9, 54, 0, 0),
      QTime(9, 54, 59, 800), QTime(9, 55, 30, 0), QTime(9, 59, 30, 0),
      QTime(10, 0, 0, 0) }

\* How long after the previous evaluation the time-range dialog is accepted.
DialogDelays == { 0, 30000 }

\* QSpinBox range of the warning lead time is 1..10 minutes.
WarningMinutes == { 1, 5 }

\* datetime.weekday(): 0 = Monday .. 6 = Sunday.
Weekdays == 0 .. 6

(* ------------------------------------------------------------------ *)
(* SettingsManager                                                      *)
(* ------------------------------------------------------------------ *)

\* The scan of get_current_period from entry i on: first match wins.
RECURSIVE ScanPeriods(_, _, _)
ScanPeriods(tr, current_time, i) ==
    IF i > Len(tr) THEN None
    ELSE IF tr[i].start <= current_time /\ current_time <= tr[i].end
         THEN tr[i].period
         ELSE ScanPeriods(tr, current_time, i + 1)

\* A scan that treats the end of a period as exclusive.
RECURSIVE ScanPeriodsExclusive(_, _, _)
ScanPeriodsExclusive(tr, current_time, i) ==
    IF i > Len(tr) THEN None
    ELSE IF tr[i].start <= current_time /\ current_time < tr[i].end
         THEN tr[i].period
         ELSE ScanPeriodsExclusive(tr, current_time, i + 1)

get_current_period_exclusive(tr, current_time) == ScanPeriodsExclusive(tr, current_time, 1)

get_current_period(tr, current_time) == ScanPeriods(tr, current_time, 1)

\* time_ranges.get(period, {}).get(field)
RangeGet(tr, period, field) ==
    LET hits == { i \in DOMAIN tr : tr[i].period = period }
    IN  IF hits = {} THEN None
        ELSE LET i == CHOOSE j \in hits : TRUE
             IN  IF field = "start" THEN tr[i].start ELSE tr[i].end

(* ------------------------------------------------------------------ *)
(* SettingsManager: the persisted schedule table                        *)
(* ------------------------------------------------------------------ *)

\* A text is a sequence of one-character strings. A JSON object is the
\* sequence of its members in file order: the time settings file holds
\* members [key, value] whose value is an object of members [name, text].

\* The null QTime (what QTime(h, m) is for an hour or minute out of range);
\* it compares below every valid time and is falsy.
NullTime == 0 - 1

\* QtCore.QTime(hour, minute)
QTimeHM(hour, minute) ==
    IF 0 <= hour /\ hour <= 23 /\ 0 <= minute /\ minute <= 59
    THEN QTime(hour, minute, 0, 0)
    ELSE NullTime

DigitChars == << "0", "1", "2", "3", "4", "5", "6", "7", "8", "9" >>

IsDigit(c) == \E d \in DOMAIN DigitChars : DigitChars[d] = c

DigitOf(c) == (CHOOSE d \in DOMAIN DigitChars : DigitChars[d] = c) - 1

\* int(text) raises ValueError (texts here hold digits, ':' and letters).
int_raises(text) == text = << >> \/ \E i \in DOMAIN text : ~IsDigit(text[i])

\* int(text) for a text of decimal digits.
RECURSIVE int(_)
int(text) ==
    IF text = << >> THEN 0
    ELSE int(SubSeq(text, 1, Len(text) - 1)) * 10 + DigitOf(text[Len(text)])

\* text.split(sep)
RECURSIVE split(_, _)
split(text, sep) ==
    IF \A i \in DOMAIN text : text[i] # sep THEN << text >>
    ELSE LET k == CHOOSE i \in DOMAIN text :
                      text[i] = sep /\ \A j \in 1 .. (i - 1) : text[j] # sep
         IN  << SubSeq(text, 1, k - 1) >> \o split(SubSeq(text, k + 1, Len(text)), sep)

\* name in obj / obj[name] for a JSON object
HasKey(obj, name) == \E i \in DOMAIN obj : obj[i].name = name

GetItem(obj, name) == obj[CHOOSE i \in DOMAIN obj : obj[i].name = name].text

\* hour, minute = map(int, text.split(':')) raises unless there are exactly
\* two fields and both are integers.
hour_min_raises(text) ==
    LET fields == split(text, ":")
    IN  Len(fields) # 2 \/ int_raises(fields[1]) \/ int_raises(fields[2])

\* QTime(hour, minute) of hour, minute = map(int, text.split(':'))
hour_min_time(text) ==
    LET fields == split(text, ":")
    IN  QTimeHM(int(fields[1]), int(fields[2]))

\* One pass of the loop body of load_time_settings raises (int(period),
\* time_range["start"], time_range["end"] and their conversions).
entry_raises(item) ==
    \/ int_raises(item.key)
    \/ ~HasKey(item.value, "start")
    \/ hour_min_raises(GetItem(item.value, "start"))
    \/ ~HasKey(item.value, "end")
    \/ hour_min_raises(GetItem(item.value, "end"))

\* self.time_ranges[period] = {"start": s, "end": e}: an existing key keeps
\* its place in the iteration order, a new key is appended.
DictSet(tr, period, s, e) ==
    IF \E i \in DOMAIN tr : tr[i].period = period
    THEN [ i \in DOMAIN tr |->
             IF tr[i].period = period THEN Entry(period, s, e) ELSE tr[i] ]
    ELSE Append(tr, Entry(period, s, e))

\* The loop of load_time_settings over time_settings.items(): entries are
\* stored one by one until one raises.
RECURSIVE apply_items(_, _)
apply_items(tr, items) ==
    IF items = << >> THEN [time_ranges |-> tr, raised |-> FALSE]
    ELSE IF entry_raises(Head(items)) THEN [time_ranges |-> tr, raised |-> TRUE]
    ELSE LET item == Head(items)
         IN  apply_items(
                 DictSet(tr, int(item.key),
                         hour_min_time(GetItem(item.value, "start")),
                         hour_min_time(GetItem(item.value, "end"))),
                 Tail(items))

\* load_time_settings on table tr: the table afterwards and whether an
\* exception was caught (and logged).
load_time_settings(tr, file) ==
    IF ~file.exists THEN [time_ranges |-> tr, raised |-> FALSE]
    ELSE IF ~file.json THEN [time_ranges |-> tr, raised |-> TRUE]
    ELSE apply_items(tr, file.items)

\* str(n) for an integer n >= 0.
RECURSIVE str(_)
str(n) ==
    IF n < 10 THEN << DigitChars[n + 1] >>
    ELSE Append(str(n \div 10), DigitChars[(n % 10) + 1])

\* Two decimal digits of n < 100.
TwoDigits(n) == << DigitChars[(n \div 10) + 1], DigitChars[(n % 10) + 1] >>

\* A toString that writes the minute before the hour.
toString_mmHH(t) ==
    IF t = NullTime THEN << >>
    ELSE TwoDigits((t \div 60000) % 60) \o << ":" >> \o TwoDigits(t \div 3600000)

\* QTime.toString("HH:mm"): seconds and milliseconds are dropped; the
\* null time gives the empty string.
toString_HHmm(t) ==
    IF t = NullTime THEN << >>
    ELSE TwoDigits(t \div 3600000) \o << ":" >> \o TwoDigits((t \div 60000) % 60)

\* time_settings of save_time_settings as json.dump writes it: one member
\* per entry, in the iteration order of the table.
save_time_settings(tr) ==
    [exists |-> TRUE, json |-> TRUE, items |->
        [ i \in DOMAIN tr |->
            [key |-> str(tr[i].period),
             value |-> << [name |-> "start", text |-> toString_HHmm(tr[i].start)],
                          [name |-> "end", text |-> toString_HHmm(tr[i].end)] >>] ]]

\* "HH:mm" as a text.
HHmm(a, b, c, d) == << a, b, ":", c, d >>

Member(n, t) == [name |-> n, text |-> t]

Item(k, v) == [key |-> k, value |-> v]

\* os.path.exists is false.
NoFile == [exists |-> FALSE, json |-> FALSE, items |-> << >>]

\* The file exists but open or json.load raises (unreadable, truncated).
CorruptFile == [exists |-> TRUE, json |-> FALSE, items |-> << >>]

\* {"1": {"start": "09:56", "end": "09:58"}, "3": {"start": "10:00", "end": "10:50"}}
SavedFile ==
    [exists |-> TRUE, json |-> TRUE, items |->
        << Item(<<"1">>, << Member("start", HHmm("0", "9", "5", "6")),
                            Member("end", HHmm("0", "9", "5", "8")) >>),
           Item(<<"3">>, << Member("start", HHmm("1", "0", "0", "0")),
                            Member("end", HHmm("1", "0", "5", "0")) >>) >>]

\* {"1": {"start": "09:56", "end": "09:58"}, "2": {"start": "10:0x", "end": "10:50"}}
PartialFile ==
    [exists |-> TRUE, json |-> TRUE, items |->
        << Item(<<"1">>, << Member("start", HHmm("0", "9", "5", "6")),
                            Member("end", HHmm("0", "9", "5", "8")) >>),
           Item(<<"2">>, << Member("start", HHmm("1", "0", "0", "x")),
                            Member("end", HHmm("1", "0", "5", "0")) >>) >>]

\* {"2": {"end": "10:50"}}
MissingKeyFile ==
    [exists |-> TRUE, json |-> TRUE, items |->
        << Item(<<"2">>, << Member("end", HHmm("1", "0", "5", "0")) >>) >>]

\* {"2": {"start": "25:00", "end": "10:50"}}
OutOfRangeFile ==
    [exists |-> TRUE, json |-> TRUE, items |->
        << Item(<<"2">>, << Member("start", HHmm("2", "5", "0", "0")),
                            Member("end", HHmm("1", "0", "5", "0")) >>) >>]

\* Contents of the time settings file at a load.
TimeFiles ==
    { NoFile, CorruptFile, SavedFile, PartialFile, MissingKeyFile, OutOfRangeFile }

\* settings_manager.timetable_data: day -> period -> subject, as the
\* sequence of its cells.
NoTimetable == << >>

\* Timetables the user can leave the timetable edit dialog with.
EditedTimetables ==
    { << [day |-> "Mon", period |-> "1", subject |-> "Math"] >>,
      << [day |-> "Mon", period |-> "1", subject |-> "Math"],
         [day |-> "Sat", period |-> "2", subject |-> "Art"] >> }

(* ------------------------------------------------------------------ *)
(* Widget geometry: screens, saved position and size                    *)
(* ------------------------------------------------------------------ *)

\* self.setMinimumSize(400, 300): Qt keeps resize() at or above it.
MinimumWidth == 400

MinimumHeight == 300

\* The resize grip: the bottom-right 20 x 20 pixels.
CornerSize == 20

Point(px, py) == [x |-> px, y |-> py]

Size(w, h) == [width |-> w, height |-> h]

\* QRect.getRect(): (x, y, width, height)
Rect(rx, ry, w, h) == [x |-> rx, y |-> ry, width |-> w, height |-> h]

\* QRect.left / top / right / bottom: right and bottom are inclusive.
Left(r) == r.x

Top(r) == r.y

Right(r) == r.x + r.width - 1

Bottom(r) == r.y + r.height - 1

Screen(n, g) == [name |-> n, geometry |-> g]

\* No point yet (drag_start_pos = None, resize_start_pos = None).
NoPoint == Point(None, None)

\* widget_screen_info is None.
NoScreenInfo == [present |-> FALSE, geometry |-> Rect(0, 0, 0, 0), name |-> ""]

\* {'geometry': screen.geometry().getRect(), 'name': screen.name()}
ScreenInfo(screen) == [present |-> TRUE, geometry |-> screen.geometry, name |-> screen.name]

\* Config.DEFAULT_WINDOW_POSITION and Config.DEFAULT_WINDOW_SIZE.
DEFAULT_WINDOW_POSITION == Point(100, 100)

DEFAULT_WINDOW_SIZE == Size(400, 300)

ScreenA == Screen("A", Rect(0, 0, 800, 600))

ScreenB == Screen("B", Rect(800, 0, 640, 480))

\* The same monitor "B" after it was moved to the left of the primary one.
ScreenBLeft == Screen("B", Rect(0 - 640, 0, 640, 480))

\* QApplication.screens() of the running widget; the first is the primary.
Screens == << ScreenA, ScreenB >>

\* Monitor layouts at start-up.
ScreenLayouts ==
    { << ScreenA >>, << ScreenA, ScreenB >>, << ScreenB, ScreenA >>,
      << ScreenA, ScreenBLeft >> }

\* QApplication.primaryScreen()
primaryScreen(screens) == screens[1]

\* The loop over screens in apply_saved_position: the first screen whose
\* geometry or whose name equals the saved one, index 0 when there is none.
MatchingScreen(screen_info, screens) ==
    LET hits == { i \in DOMAIN screens :
                    \/ screens[i].geometry = screen_info.geometry
                    \/ screens[i].name = screen_info.name }
    IN  IF ~screen_info.present \/ hits = {} THEN 0
        ELSE CHOOSE i \in hits : \A j \in hits : i <= j

\* target_screen of apply_saved_position
TargetScreen(screen_info, screens) ==
    IF MatchingScreen(screen_info, screens) = 0
    THEN primaryScreen(screens)
    ELSE screens[MatchingScreen(screen_info, screens)]

\* A placement that moves to the saved position as it is.
apply_saved_position_unclamped(saved_pos, saved_size, screen_info, screens) ==
    [x |-> saved_pos.x, y |-> saved_pos.y, width |-> saved_size.width, height |-> saved_size.height]

\* apply_saved_position: the arguments of self.move and self.resize. The
\* saved position and size hold both of their keys (save_widget_position
\* writes them together).
apply_saved_position(saved_pos, saved_size, screen_info, screens) ==
    LET screen_geom == TargetScreen(screen_info, screens).geometry
        min_x == Left(screen_geom)
        max_x == max(min_x, Right(screen_geom) - saved_size.width)
        min_y == Top(screen_geom)
        max_y == max(min_y, Bottom(screen_geom) - saved_size.height)
    IN  [x |-> max(min_x, min(saved_pos.x, max_x)),
         y |-> max(min_y, min(saved_pos.y, max_y)),
         width |-> saved_size.width,
         height |-> saved_size.height]

\* QWidget.resize(w, h) under the minimum size.
Resized(w, h) == Size(max(MinimumWidth, w), max(MinimumHeight, h))

\* QApplication.screenAt(point): the first screen containing it, else
\* the primary screen (save_widget_position's fallback).
screenAt(point, screens) ==
    LET hits == { i \in DOMAIN screens :
                    /\ Left(screens[i].geometry) <= point.x
                    /\ point.x <= Right(screens[i].geometry)
                    /\ Top(screens[i].geometry) <= point.y
                    /\ point.y <= Bottom(screens[i].geometry) }
    IN  IF hits = {} THEN primaryScreen(screens)
        ELSE screens[CHOOSE i \in hits : \A j \in hits : i <= j]

\* mapToGlobal(rect().center()) of a widget at position with size sz.
Center(position, sz) ==
    Point(position.x + (sz.width - 1) \div 2, position.y + (sz.height - 1) \div 2)

\* The widget settings file.
PositionFile(position, sz, locked, screen_info) ==
    [exists |-> TRUE, position |-> position, size |-> sz,
     is_position_locked |-> locked, screen_info |-> screen_info]

NoPositionFile ==
    [exists |-> FALSE, position |-> DEFAULT_WINDOW_POSITION, size |-> DEFAULT_WINDOW_SIZE,
     is_position_locked |-> FALSE, screen_info |-> NoScreenInfo]

\* The file left by an earlier run that applied the settings dialog with
\* the defaults.
DefaultPositionFile ==
    PositionFile(DEFAULT_WINDOW_POSITION, DEFAULT_WINDOW_SIZE, FALSE, NoScreenInfo)

\* Widget settings files found at start-up.
PositionFiles ==
    { NoPositionFile,
      DefaultPositionFile,
      PositionFile(Point(300, 200), Size(400, 300), FALSE, ScreenInfo(ScreenA)),
      PositionFile(Point(700, 500), Size(400, 300), TRUE, ScreenInfo(ScreenA)),
      PositionFile(Point(900, 100), Size(420, 300), FALSE, ScreenInfo(ScreenB)) }

\* Global positions of the pointer in mouse events.
PointerPositions ==
    { Point(150, 150), Point(350, 250), Point(495, 395), Point(520, 410),
      Point(690, 490), Point(790, 590) }

\* Values of the width and height spin boxes (ranges 200..800, 150..600).
SpinWidths == { 200, 400, 450 }

SpinHeights == { 150, 300 }

\* Mouse events, lock toggles and dialog operations in one behaviour.
MaxEvents == 4

(* ------------------------------------------------------------------ *)
(* SettingsManager: backups                                             *)
(* ------------------------------------------------------------------ *)

\* files_to_backup, in the order they are copied.
files_to_backup ==
    << "timetable_data.json", "time_settings.json", "style_settings.json",
       "widget_settings.json", "notification_settings.json" >>

\* Where a file operation of create_backup fails: nowhere, in makedirs, in
\* the copy of one file, or in writing description.txt.
Failure(stage, file) == [stage |-> stage, file |-> file]

NoFailure == Failure("none", "")

Failures ==
    { NoFailure, Failure("makedirs", ""), Failure("description", "") }
        \cup { Failure("copy", files_to_backup[i]) : i \in DOMAIN files_to_backup }

\* backup_name arguments: None or "" (the timestamp name is used), a name.
BackupNames == { "", "before_exam" }

\* f"backup_{now.strftime('%Y%m%d_%H%M%S')}" at the time of the call.
TimestampName == "backup_20261104_094700"

\* The folder backups/<name>, if it exists: the files in it and whether it
\* holds description.txt.
Folder(bks, name) ==
    IF \E b \in bks : b.name = name
    THEN CHOOSE b \in bks : b.name = name
    ELSE [name |-> name, files |-> {}, description |-> FALSE]

\* The files copied by the loop before it ends or the copy of fail.file
\* raises.
Copied(files, fail) ==
    LET stop == IF fail.stage = "copy"
                THEN CHOOSE i \in DOMAIN files_to_backup : files_to_backup[i] = fail.file
                ELSE Len(files_to_backup) + 1
    IN  { files_to_backup[i] : i \in { j \in DOMAIN files_to_backup :
                                       j < stop /\ files_to_backup[j] \in files } }

\* create_backup(backup_name) with the settings files `files` present and
\* the folders bks under backups/: the folders afterwards and the returned
\* pair. now is assigned only when no backup_name was given, so with a
\* name the description line raises UnboundLocalError, which is caught.
create_backup(files, bks, backup_name, fail) ==
    LET name == IF backup_name = "" THEN TimestampName ELSE backup_name
        old == Folder(bks, name)
        copied == [old EXCEPT !.files = old.files \cup Copied(files, fail)]
        now_unbound == backup_name # ""
    IN  IF fail.stage = "makedirs"
        THEN [backups |-> bks, ok |-> FALSE, value |-> "makedirs failed"]
        ELSE IF fail.stage = "copy"
        THEN [backups |-> (bks \ { old }) \cup { copied }, ok |-> FALSE,
              value |-> "file operation failed"]
        ELSE IF now_unbound
        THEN [backups |-> (bks \ { old }) \cup { copied }, ok |-> FALSE,
              value |-> "UnboundLocalError: now"]
        ELSE IF fail.stage = "description"
        THEN [backups |-> (bks \ { old }) \cup { copied }, ok |-> FALSE,
              value |-> "file operation failed"]
        ELSE [backups |-> (bks \ { old }) \cup { [copied EXCEPT !.description = TRUE] },
              ok |-> TRUE, value |-> name]

\* Calls of create_backup in one behaviour.
MaxBackups == 2

(* ------------------------------------------------------------------ *)
(* Widget: the scheduler                                                *)
(* ------------------------------------------------------------------ *)

VARIABLES
    time_ranges,          \* settings_manager.time_ranges
    next_period_warning,  \* notification_manager.next_period_warning
    warning_minutes,      \* notification_manager.warning_minutes
    now,                  \* QTime.currentTime() at the last evaluation
    today,                \* datetime.now().weekday()
    current_period,       \* Widget.current_period
    current_day_idx,      \* Widget.current_day_idx
    timer,                \* the QTimer Widget.timer refers to
    pc,                   \* "new": inside __init__ before line 123; "running"
    changed,              \* prev_period != self.current_period in the last evaluation
    styled,               \* the last operation called update_styles
    notified,             \* check_notifications calls of the last operation
    armed,                \* interval the last set_next_update_timer passed to setInterval
    step,                 \* the last operation
    dialogs,              \* accepted time-range dialogs so far
    timetable_data,       \* settings_manager.timetable_data
    time_file,            \* the persisted schedule table (time settings file)
    load_error,           \* the last load_time_settings caught an exception
    loads,                \* runs of load_time_settings so far
    pos,                  \* Widget.pos()
    size,                 \* Widget.size()
    pointer,              \* globalPos() of the last mouse event
    pressed,              \* the left button is held
    dragging,             \* DragResizeMixin.dragging
    resizing,             \* DragResizeMixin.resizing
    drag_start_pos,       \* DragResizeMixin.drag_start_pos
    resize_start_pos,     \* DragResizeMixin.resize_start_pos
    initial_size,         \* DragResizeMixin.initial_size
    is_position_locked,   \* settings_manager.is_position_locked
    widget_position,      \* settings_manager.widget_position
    widget_size,          \* settings_manager.widget_size
    widget_screen_info,   \* settings_manager.widget_screen_info
    position_file,        \* the persisted widget settings file
    moved,                \* the last mouse event called self.move
    reset,                \* "pending": reset position confirmed in the open dialog;
                          \* "applied": then applied, and not dragged since
    events,               \* mouse events, lock toggles, dialog operations so far
    settings_files,       \* the settings files that exist in the data directory
    backups,              \* the folders under backups/ and what they hold
    backup_call,          \* the arguments of the last create_backup
    backup_result,        \* what the last create_backup returned
    highlighted,          \* the cells that carry the current-period style
    cleanup_on_close,     \* Widget.cleanup_on_close
    cleanup_done,         \* ApplicationManager._cleanup_done
    cleanup_runs,         \* executions of the body of cleanup_resources so far
    stack,                \* the Python frames of the main thread, innermost last
    phase,                \* where the process is: "loop" (app.exec_), "about_to_quit",
                          \* "run_tail", "exiting", "atexit", "exited"
    quit_requested,       \* QApplication.quit() was called
    trace,                \* what the last closeEvent did, in order
    signals,              \* signals handled so far
    finished              \* an exit path that calls cleanup_resources has finished

\* The settings store beside the schedule table.
store_vars == << timetable_data, time_file, load_error, loads >>

vars ==
    << time_ranges, next_period_warning, warning_minutes, now, today,
       current_period, current_day_idx, timer, pc, changed, styled,
       notified, armed, step, dialogs,
       timetable_data, time_file, load_error, loads,
       pos, size, pointer, pressed, dragging, resizing, drag_start_pos,
       resize_start_pos, initial_size, is_position_locked, widget_position,
       widget_size, widget_screen_info, position_file, moved, reset, events,
       settings_files, backups, backup_call, backup_result,
       highlighted, cleanup_on_close, cleanup_done, cleanup_runs, stack, phase,
       quit_requested, trace, signals, finished >>

\* The data directory and the backups made of it.
backup_vars == << settings_files, backups, backup_call, backup_result >>

\* The application's exit machinery.
exit_vars ==
    << cleanup_on_close, cleanup_done, cleanup_runs, stack, phase, quit_requested,
       trace, signals, finished >>

\* The state of DragResizeMixin.
mixin_vars ==
    << dragging, resizing, drag_start_pos, resize_start_pos, initial_size >>

\* What save_widget_position writes.
saved_vars == << widget_position, widget_size, widget_screen_info, position_file >>

\* The widget's geometry, the pointer and the position settings.
pointer_vars ==
    << pos, size, pointer, pressed, mixin_vars, is_position_locked, saved_vars,
       moved, reset, events >>

\* update_styles: the cells (row, col) of cell_widgets that get the
\* current-period style.
update_styles(period, day) ==
    { cell \in (1 .. 7) \X (1 .. 5) : cell[1] = period /\ cell[2] = day }

\* self.current_period = None in __init__ (line 116)
InitialPeriod == None

\* A change detector that reads prev_period after current_period was assigned.
PeriodChangedStale(prev_period, period) == period # period

\* A change detector that also fires whenever a period is active.
PeriodChangedOrActive(prev_period, period) == prev_period # period \/ Truthy(period)

\* prev_period != self.current_period
PeriodChanged(prev_period, period) == prev_period # period

\* A day index that counts Saturday as a sixth school day.
DayIndexSixDays(weekday) == IF 0 <= weekday /\ weekday <= 5 THEN weekday + 1 ELSE None

\* today + 1 if 0 <= today <= 4 else None
DayIndex(weekday) == IF 0 <= weekday /\ weekday <= 4 THEN weekday + 1 ELSE None

\* (self.current_period or 0) + 1 if self.current_period != 7 else None
NextPeriod(period) ==
    IF period # LastPeriod
    THEN (IF Truthy(period) THEN period ELSE 0) + 1
    ELSE None

\* The end term without the "msec_to_end > 0" filter.
AfterEndTermUnfiltered(tr, period, t, msec) ==
    IF Truthy(period)
    THEN LET current_end_time == RangeGet(tr, period, "end")
         IN  IF TimeTruthy(current_end_time)
             THEN min(msec, msecsTo(t, current_end_time) + EndMargin)
             ELSE msec
    ELSE msec

\* The term of the current period's end (lines 393-399).
AfterEndTerm(tr, period, t, msec) ==
    IF Truthy(period)
    THEN LET current_end_time == RangeGet(tr, period, "end")
         IN  IF TimeTruthy(current_end_time)
                /\ msecsTo(t, current_end_time) > 0
             THEN min(msec, msecsTo(t, current_end_time) + EndMargin)
             ELSE msec
    ELSE msec

\* The term of the next period's start (lines 401-408).
AfterStartTerm(tr, next_period, t, msec) ==
    IF Truthy(next_period) /\ 1 <= next_period /\ next_period <= LastPeriod
    THEN LET next_start_time == RangeGet(tr, next_period, "start")
         IN  IF TimeTruthy(next_start_time)
                /\ msecsTo(t, next_start_time) > 0
             THEN min(msec, msecsTo(t, next_start_time) + StartMargin)
             ELSE msec
    ELSE msec

\* The term of the warning threshold (lines 410-418).
AfterWarningTerm(tr, next_period, t, npw, wm, msec) ==
    IF Truthy(next_period) /\ npw
    THEN LET next_start_time == RangeGet(tr, next_period, "start")
         IN  IF TimeTruthy(next_start_time)
             THEN LET warning_time == addSecs(next_start_time, 0 - wm * 60)
                      msec_to_warning == msecsTo(t, warning_time)
                  IN  IF msec_to_warning > 0
                      THEN min(msec, msec_to_warning + WarningMargin)
                      ELSE msec
             ELSE msec
    ELSE msec

\* next_update_msec when the minimum starts from the 600000 ms ceiling
\* instead of the baseline.
NextUpdateMsecFromCeiling(tr, period, t, npw, wm) ==
    LET m0 == MaxUpdateMsec
        m1 == AfterEndTerm(tr, period, t, m0)
        m2 == AfterStartTerm(tr, NextPeriod(period), t, m1)
        m3 == AfterWarningTerm(tr, NextPeriod(period), t, npw, wm, m2)
    IN  min(m3, MaxUpdateMsec)

\* next_update_msec as computed by lines 391-421.
NextUpdateMsec(tr, period, t, npw, wm) ==
    LET m0 == BaselineMsec
        m1 == AfterEndTerm(tr, period, t, m0)
        m2 == AfterStartTerm(tr, NextPeriod(period), t, m1)
        m3 == AfterWarningTerm(tr, NextPeriod(period), t, npw, wm, m2)
    IN  min(m3, MaxUpdateMsec)

\* setInterval without the lower clamp.
TimerIntervalUnclamped(next_update_msec) == next_update_msec

\* self.timer.setInterval(max(1000, next_update_msec))
TimerInterval(next_update_msec) == max(MinUpdateMsec, next_update_msec)

\* set_next_update_timer without the final start(): the timer stays stopped.
set_next_update_timer_unstarted(tmr, tr, period, t, npw, wm) ==
    [tmr EXCEPT !.interval = TimerInterval(NextUpdateMsec(tr, period, t, npw, wm)),
                !.active = FALSE]

\* set_next_update_timer acting on the timer object tmr: stop, setInterval, start.
set_next_update_timer(tmr, tr, period, t, npw, wm) ==
    [tmr EXCEPT !.interval = TimerInterval(NextUpdateMsec(tr, period, t, npw, wm)),
                !.active = TRUE]

\* The timer made by lines 126-128 of __init__: connected and started.
ConstructedTimer ==
    [interval |-> InitialInterval, active |-> TRUE, connected |-> TRUE]

\* An evaluation whose scan removes the entry it matched from the table.
update_current_period_consuming(tr, t, tmr) ==
    LET prev_period == current_period
        period == get_current_period(tr, t)
        is_changed == PeriodChanged(prev_period, period)
        day == DayIndex(today)
    IN  /\ now' = t
        /\ current_day_idx' = day
        /\ current_period' = period
        /\ changed' = is_changed
        /\ styled' = is_changed
        /\ highlighted' = IF is_changed THEN update_styles(period, day) ELSE highlighted
        /\ notified' = IF is_changed THEN << <<period, day>> >> ELSE << >>
        /\ armed' = set_next_update_timer(tmr, tr, period, t,
                        next_period_warning, warning_minutes).interval
        /\ time_ranges' = SelectSeq(tr, LAMBDA e : e.period # period)
        /\ UNCHANGED << next_period_warning, warning_minutes, timetable_data >>

\* update_current_period at time t with table tr, acting on timer tmr; the
\* caller says which timer object Widget.timer refers to afterwards. The two
\* reads of QTime.currentTime() (lines 362 and 390) are taken as one instant.
\* get_current_period and set_next_update_timer only read the table, the
\* timetable data and the notification policy. weekday is what
\* datetime.now().weekday() returns during the call.
update_current_period_on(tr, t, tmr, weekday) ==
    LET prev_period == current_period
        period == get_current_period(tr, t)
        is_changed == PeriodChanged(prev_period, period)
        day == DayIndex(weekday)
    IN  /\ now' = t
        /\ current_day_idx' = day
        /\ current_period' = period
        /\ changed' = is_changed
        /\ styled' = is_changed
        /\ highlighted' = IF is_changed THEN update_styles(period, day) ELSE highlighted
        /\ notified' = IF is_changed THEN << <<period, day>> >> ELSE << >>
        /\ armed' = set_next_update_timer(tmr, tr, period, t,
                        next_period_warning, warning_minutes).interval
        /\ time_ranges' = tr
        /\ UNCHANGED << next_period_warning, warning_minutes, timetable_data >>

\* update_current_period on the day the model is in.
update_current_period(tr, t, tmr) == update_current_period_on(tr, t, tmr, today)

\* The widget and its scheduler.
WidgetInit ==
    /\ time_ranges \in Tables
    /\ next_period_warning \in BOOLEAN
    /\ warning_minutes \in WarningMinutes
    /\ now \in StartTimes
    /\ today \in Weekdays
    /\ current_period = InitialPeriod
    /\ current_day_idx = None
    /\ timer = [interval |-> 0, active |-> FALSE, connected |-> FALSE]
    /\ pc = "new"
    /\ changed = FALSE
    /\ styled = TRUE
    /\ highlighted = update_styles(InitialPeriod, None)
    /\ notified = << >>
    /\ armed = 0
    /\ step = "init"
    /\ dialogs = 0

\* A first launch: no timetable entered, no time settings file.
StoreInit ==
    /\ timetable_data = NoTimetable
    /\ time_file = NoFile
    /\ load_error = FALSE
    /\ loads = 0

\* load_widget_position on the widget settings file, then init_ui's
\* apply_saved_position and init_drag_resize.
GeometryInit(file) ==
    /\ position_file = file
    /\ widget_position = file.position
    /\ widget_size = file.size
    /\ is_position_locked = file.is_position_locked
    /\ widget_screen_info = file.screen_info
    /\ LET placed == apply_saved_position(file.position, file.size, file.screen_info, Screens)
       IN  /\ pos = Point(placed.x, placed.y)
           /\ size = Resized(placed.width, placed.height)
           /\ initial_size = Resized(placed.width, placed.height)
    /\ pointer = NoPoint
    /\ pressed = FALSE
    /\ dragging = FALSE
    /\ resizing = FALSE
    /\ drag_start_pos = NoPoint
    /\ resize_start_pos = NoPoint
    /\ moved = FALSE
    /\ reset = "none"
    /\ events = 0

\* No backup made yet, no call of create_backup.
BackupInit(files) ==
    /\ settings_files = files
    /\ backups = {}
    /\ backup_call = [backup_name |-> "", fail |-> NoFailure]
    /\ backup_result = [ok |-> TRUE, value |-> ""]

\* ApplicationManager.__init__ and run up to app.exec_(): nothing cleaned
\* up, the event loop running, no Python frame active; callback is what
\* Widget.cleanup_on_close holds.
ExitInit(callback) ==
    /\ cleanup_on_close = callback
    /\ cleanup_done = FALSE
    /\ cleanup_runs = 0
    /\ stack = << >>
    /\ phase = "loop"
    /\ quit_requested = FALSE
    /\ trace = << >>
    /\ signals = 0
    /\ finished = FALSE

Init ==
    /\ WidgetInit
    /\ StoreInit
    /\ GeometryInit(DefaultPositionFile)
    /\ BackupInit({ "widget_settings.json" })
    /\ ExitInit("cleanup_resources")

\* Widget.__init__ from line 123 on: the first evaluation re-arms the timer of
\* line 99, then lines 126-128 bind Widget.timer to a new timer.
Construct ==
    /\ pc = "new"
    /\ update_current_period(time_ranges, now, timer)
    /\ timer' = ConstructedTimer
    /\ pc' = "running"
    /\ step' = "construct"
    /\ UNCHANGED << today, dialogs, time_file, load_error, loads, pointer_vars, backup_vars, exit_vars >>

\* The timer's timeout signal: update_current_period runs interval ms after
\* the timer was started.
TimerTimeout ==
    /\ pc = "running"
    /\ timer.active /\ timer.connected
    /\ now + timer.interval <= WindowEnd
    /\ update_current_period(time_ranges, now + timer.interval, timer)
    /\ timer' = set_next_update_timer(timer, time_ranges, current_period',
                    now + timer.interval, next_period_warning, warning_minutes)
    /\ step' = "timeout"
    /\ UNCHANGED << today, pc, dialogs, time_file, load_error, loads, pointer_vars, backup_vars, exit_vars >>

\* The tables TimeRangeDialog can leave in settings_manager.time_ranges when
\* it is accepted: the table is replaced wholesale, or left as it was.
AcceptedTables(tr) == EditedTables \cup { tr }

\* show_time_dialog without the call of update_current_period: the table is
\* replaced and nothing is evaluated.
ShowTimeDialogNoUpdate ==
    /\ pc = "running"
    /\ dialogs < MaxDialogs
    /\ time_ranges' \in AcceptedTables(time_ranges)
    /\ dialogs' = dialogs + 1
    /\ step' = "time_dialog"
    /\ notified' = << >>
    /\ UNCHANGED << next_period_warning, warning_minutes, now, today, current_period,
                    current_day_idx, timer, pc, changed, styled, highlighted, armed, store_vars,
                    pointer_vars, backup_vars, exit_vars >>

\* show_time_dialog, accepted delay ms after the last evaluation (before the
\* timer fires): the dialog has replaced the table, update_current_period runs.
ShowTimeDialog ==
    /\ pc = "running"
    /\ dialogs < MaxDialogs
    /\ \E delay \in DialogDelays, tr \in AcceptedTables(time_ranges) :
        /\ delay < timer.interval
        /\ now + delay <= WindowEnd
        /\ update_current_period(tr, now + delay, timer)
        /\ timer' = set_next_update_timer(timer, tr, current_period',
                        now + delay, next_period_warning, warning_minutes)
    /\ dialogs' = dialogs + 1
    /\ step' = "time_dialog"
    /\ UNCHANGED << today, pc, time_file, load_error, loads, pointer_vars, backup_vars, exit_vars >>

\* settings_manager.save_widget_position(x, y, width, height, screen_info)
\* with is_position_locked as it is at the call.
save_widget_position(x, y, width, height, screen_info, locked) ==
    /\ widget_position' = Point(x, y)
    /\ widget_size' = Size(width, height)
    /\ widget_screen_info' = screen_info
    /\ position_file' = PositionFile(Point(x, y), Size(width, height), locked, screen_info)

\* Widget.save_widget_position: the current position and size with the
\* screen under the widget's centre.
SaveCurrentPosition(locked) ==
    save_widget_position(pos.x, pos.y, size.width, size.height,
        ScreenInfo(screenAt(Center(pos, size), Screens)), locked)

\* event.pos() is inside the bottom-right corner of the widget.
InCorner(g, position, sz) ==
    /\ g.x - position.x >= sz.width - CornerSize
    /\ g.y - position.y >= sz.height - CornerSize

\* event.pos() is inside the widget (where it receives a press).
Inside(g, position, sz) ==
    /\ 0 <= g.x - position.x /\ g.x - position.x < sz.width
    /\ 0 <= g.y - position.y /\ g.y - position.y < sz.height

\* handle_mouse_press for the left button at global position g.
handle_mouse_press(g) ==
    IF is_position_locked
    THEN IF InCorner(g, pos, size)
         THEN /\ resizing' = TRUE
              /\ resize_start_pos' = g
              /\ initial_size' = size
              /\ UNCHANGED << dragging, drag_start_pos >>
         ELSE UNCHANGED mixin_vars
    ELSE IF InCorner(g, pos, size)
         THEN /\ resizing' = TRUE
              /\ resize_start_pos' = g
              /\ initial_size' = size
              /\ UNCHANGED << dragging, drag_start_pos >>
         ELSE /\ dragging' = TRUE
              /\ drag_start_pos' = Point(g.x - pos.x, g.y - pos.y)
              /\ UNCHANGED << resizing, resize_start_pos, initial_size >>

\* A move handler that drags without looking at the lock.
handle_mouse_move_ignoring_lock(g, left) ==
    IF resizing
    THEN /\ size' = Size(max(MinimumWidth, initial_size.width + (g.x - resize_start_pos.x)),
                         max(MinimumHeight, initial_size.height + (g.y - resize_start_pos.y)))
         /\ moved' = FALSE
         /\ UNCHANGED pos
    ELSE IF dragging /\ left
         THEN /\ pos' = Point(g.x - drag_start_pos.x, g.y - drag_start_pos.y)
              /\ moved' = TRUE
              /\ UNCHANGED size
         ELSE /\ moved' = FALSE
              /\ UNCHANGED << pos, size >>

\* handle_mouse_move at global position g; left: event.buttons() is the
\* left button.
handle_mouse_move(g, left) ==
    IF resizing
    THEN /\ size' = Size(max(MinimumWidth, initial_size.width + (g.x - resize_start_pos.x)),
                         max(MinimumHeight, initial_size.height + (g.y - resize_start_pos.y)))
         /\ moved' = FALSE
         /\ UNCHANGED pos
    ELSE IF dragging /\ left /\ ~is_position_locked
         THEN /\ pos' = Point(g.x - drag_start_pos.x, g.y - drag_start_pos.y)
              /\ moved' = TRUE
              /\ UNCHANGED size
         ELSE /\ moved' = FALSE
              /\ UNCHANGED << pos, size >>

\* handle_mouse_release for the left button.
handle_mouse_release ==
    /\ resizing' = FALSE
    /\ dragging' = FALSE
    /\ styled' = TRUE
    /\ highlighted' = update_styles(current_period, current_day_idx)
    /\ SaveCurrentPosition(is_position_locked)
    /\ UNCHANGED << drag_start_pos, resize_start_pos, initial_size >>

\* What the scheduler keeps while the pointer and the dialogs act.
scheduler_kept ==
    << time_ranges, next_period_warning, warning_minutes, now, today, current_period,
       current_day_idx, timer, pc, changed, armed, dialogs, store_vars, backup_vars, exit_vars >>

\* mousePressEvent with the left button, inside the widget.
MousePress ==
    /\ pc = "running" /\ reset # "pending"
    /\ events < MaxEvents
    /\ ~pressed
    /\ \E g \in PointerPositions :
        /\ Inside(g, pos, size)
        /\ handle_mouse_press(g)
        /\ pointer' = g
    /\ pressed' = TRUE
    /\ moved' = FALSE
    /\ events' = events + 1
    /\ notified' = << >>
    /\ step' = "press"
    /\ UNCHANGED << scheduler_kept, styled, highlighted, pos, size, is_position_locked, saved_vars, reset >>

\* mouseMoveEvent, with or without the button held.
MouseMove ==
    /\ pc = "running" /\ reset # "pending"
    /\ events < MaxEvents
    /\ \E g \in PointerPositions \ { pointer } :
        /\ handle_mouse_move(g, pressed)
        /\ pointer' = g
    /\ reset' = IF moved' THEN "none" ELSE reset
    /\ events' = events + 1
    /\ notified' = << >>
    /\ step' = "move"
    /\ UNCHANGED << scheduler_kept, styled, highlighted, pressed, mixin_vars, is_position_locked,
                    saved_vars >>

\* mouseReleaseEvent with the left button.
MouseRelease ==
    /\ pc = "running" /\ reset # "pending"
    /\ events < MaxEvents
    /\ pressed
    /\ handle_mouse_release
    /\ pressed' = FALSE
    /\ moved' = FALSE
    /\ events' = events + 1
    /\ notified' = << >>
    /\ step' = "release"
    /\ UNCHANGED << scheduler_kept, pos, size, pointer, is_position_locked, reset >>

\* Widget.toggle_position_lock (context menu): the lock is toggled and the
\* current position saved.
TogglePositionLock ==
    /\ pc = "running" /\ reset # "pending"
    /\ events < MaxEvents
    /\ is_position_locked' = ~is_position_locked
    /\ SaveCurrentPosition(~is_position_locked)
    /\ events' = events + 1
    /\ notified' = << >>
    /\ step' = "toggle_lock"
    /\ UNCHANGED << scheduler_kept, styled, highlighted, pos, size, pointer, pressed, mixin_vars,
                    moved, reset >>

\* SettingsDialog.reset_widget_position, confirmed with Yes: only the
\* position in memory is set to the default.
ResetWidgetPosition ==
    /\ pc = "running" /\ reset # "pending"
    /\ events < MaxEvents
    /\ ~pressed
    /\ widget_position' = DEFAULT_WINDOW_POSITION
    /\ reset' = "pending"
    /\ events' = events + 1
    /\ notified' = << >>
    /\ step' = "reset_position"
    /\ UNCHANGED << scheduler_kept, styled, highlighted, pos, size, pointer, pressed, mixin_vars,
                    is_position_locked, widget_size, widget_screen_info, position_file,
                    moved >>

\* SettingsDialog.apply_settings (Apply, or OK through accept) with the
\* dialog showing policy npw, wm, size width x height and the lock box
\* locked: the policy is set, the lock is set, the position in memory is
\* saved with the new size and no screen, the widget is resized when the
\* size differs, update_styles is called. The timer is left as it is and
\* the widget is not moved.
apply_settings(npw, wm, width, height, locked) ==
    /\ next_period_warning' = npw
    /\ warning_minutes' = wm
    /\ is_position_locked' = locked
    /\ save_widget_position(widget_position.x, widget_position.y, width, height,
                            NoScreenInfo, locked)
    /\ size' = IF widget_size # Size(width, height) THEN Resized(width, height) ELSE size
    /\ reset' = IF reset = "pending" THEN "applied" ELSE reset
    /\ styled' = TRUE
    /\ highlighted' = update_styles(current_period, current_day_idx)
    /\ notified' = << >>
    /\ step' = "apply_settings"
    /\ UNCHANGED << time_ranges, now, today, current_period, current_day_idx,
                    timer, pc, changed, armed, dialogs, store_vars, backup_vars, exit_vars,
                    pos, pointer, pressed, mixin_vars, moved, events >>

\* The settings dialog applied with a new notification policy, the size
\* and lock boxes as they were filled in from the settings.
ApplySettings ==
    /\ pc = "running"
    /\ \E npw \in BOOLEAN, wm \in WarningMinutes :
        apply_settings(npw, wm, widget_size.width, widget_size.height, is_position_locked)

Next ==
    \/ Construct
    \/ TimerTimeout
    \/ ShowTimeDialog
    \/ ApplySettings

Spec == Init /\ [][Next]_vars

(* ------------------------------------------------------------------ *)
(* Properties                                                           *)
(* ------------------------------------------------------------------ *)

\* The operations that perform an evaluation (update_current_period).
EvalSteps == { "construct", "timeout", "time_dialog" }

\* Indexes of the entries whose closed interval contains t.
Containing(tr, t) == { i \in DOMAIN tr : tr[i].start <= t /\ t <= tr[i].end }

\* The id of the first containing entry in iteration order, else None.
FirstContaining(tr, t) ==
    IF Containing(tr, t) = {} THEN None
    ELSE tr[CHOOSE i \in Containing(tr, t) : \A j \in Containing(tr, t) : i <= j].period

NonOverlapping(tr) ==
    \A i, j \in DOMAIN tr :
        i # j => (tr[i].end < tr[j].start \/ tr[j].end < tr[i].start)

Reverse(tr) == [ i \in DOMAIN tr |-> tr[Len(tr) + 1 - i] ]

\* The instants around every boundary of the table, and the start times.
CheckTimes(tr) ==
    StartTimes \cup UNION { { tr[i].start - 1, tr[i].start, tr[i].start + 1,
                              tr[i].end - 1, tr[i].end, tr[i].end + 1 } : i \in DOMAIN tr }

\* get_current_period on every table and instant around its boundaries:
\* the first containing entry wins, None when there is none; on a
\* non-overlapping table both boundaries report the period and the result
\* is the unique containing period in either iteration order.
FirstContainingOnAllTables ==
    \A tr \in Tables :
        /\ \A t \in CheckTimes(tr) :
            /\ get_current_period(tr, t) = FirstContaining(tr, t)
            /\ NonOverlapping(tr) =>
                /\ get_current_period(Reverse(tr), t) = get_current_period(tr, t)
                /\ \A i \in DOMAIN tr :
                    (get_current_period(tr, t) = tr[i].period) <=> (i \in Containing(tr, t))
        /\ NonOverlapping(tr) =>
            \A i \in DOMAIN tr :
                /\ get_current_period(tr, tr[i].start) = tr[i].period
                /\ get_current_period(tr, tr[i].end) = tr[i].period

\* C1: get_current_period returns the id of the first period in iteration
\* order whose closed interval contains now, None when there is none; now
\* equal to start or to end reports the period; for a non-overlapping table
\* the result is the unique containing period whatever the iteration order.
\* The period stored by an evaluation is that result for the evaluation's now.
C1_FirstContainingPeriod ==
    /\ FirstContainingOnAllTables
    /\ time_ranges \in Tables
    /\ pc = "running" => current_period = FirstContaining(time_ranges, now)

\* C1 witness: an evaluation exactly at the end of a period reported it active.
C1_Witness ==
    /\ pc = "running"
    /\ current_period # None
    /\ now = RangeGet(time_ranges, current_period, "end")

\* C2: in an evaluation changed is true iff the newly computed period differs
\* from the period stored by the previous evaluation, update_styles is called
\* by the evaluation exactly when changed is true, and a second evaluation
\* with the same now and table signals no change.
C2_ChangedIffPeriodDiffers ==
    [][ step' \in EvalSteps =>
          /\ changed' <=> (current_period' # current_period)
          /\ styled' <=> changed'
          /\ (pc = "running" /\ now' = now /\ time_ranges' = time_ranges) => ~changed'
      ]_vars

\* C2 witness: a timer wakeup found the period over, signalled the change and
\* refreshed the styles.
C2_Witness ==
    /\ step = "timeout"
    /\ changed
    /\ styled
    /\ current_period = None

\* C3 (as claimed): changed is true exactly on the first evaluation of each
\* maximal run of identical results, the very first run included whatever
\* its result.
C3_ChangedOncePerRun_AsClaimed ==
    [][ step' \in EvalSteps =>
          (changed' <=>
              (pc = "new" \/ get_current_period(time_ranges', now') # get_current_period(time_ranges, now)))
      ]_vars

\* C3 (amended): changed is true exactly on the first evaluation of each
\* maximal run of identical results; the first run after construction
\* signals a change only when its result is a period.
C3_ChangedOncePerRun ==
    [][ step' \in EvalSteps =>
          (changed' <=>
              IF pc = "new"
              THEN get_current_period(time_ranges', now') # None
              ELSE get_current_period(time_ranges', now') # get_current_period(time_ranges, now))
      ]_vars

\* C3 witness: the first evaluation after construction found no period and
\* signalled no change.
C3_Witness ==
    /\ step = "construct"
    /\ current_period = None
    /\ ~changed

\* The next period of the claim: current period + 1 (no current period
\* counting as 0), none after period 7.
ClaimedNext(period) ==
    IF period = None THEN 1
    ELSE IF period + 1 <= LastPeriod THEN period + 1 ELSE None

\* A term of the minimum, present only when its condition holds.
Term(present, msec) == IF present THEN { msec } ELSE { }

\* The remaining times the claim adds to the minimum, margins included.
ClaimedTerms(tr, period, t, npw, wm) ==
    LET nxt == ClaimedNext(period)
        nstart == IF nxt = None THEN None ELSE RangeGet(tr, nxt, "start")
        pend == IF period = None THEN None ELSE RangeGet(tr, period, "end")
        threshold == addSecs(nstart, 0 - wm * 60)
    IN  { BaselineMsec }
        \cup Term(pend # None /\ pend - t > 0, (pend - t) + 1000)
        \cup Term(nstart # None /\ nstart - t > 0, (nstart - t) + 1000)
        \cup Term(npw /\ nstart # None /\ threshold - t > 0, (threshold - t) + 500)

SetMin(S) == CHOOSE x \in S : \A y \in S : x <= y

\* The delay of the claim: the minimum of the terms clamped to [1000, 600000].
ClaimedDelay(tr, period, t, npw, wm) ==
    LET m == SetMin(ClaimedTerms(tr, period, t, npw, wm))
    IN  IF m < 1000 THEN 1000 ELSE IF m > 600000 THEN 600000 ELSE m

\* The armed interval equals the claimed delay on every table, at every
\* instant around its boundaries, under every notification policy.
ClaimedDelayOnAllTables ==
    \A tr \in Tables :
        \A t \in CheckTimes(tr), npw \in BOOLEAN, wm \in WarningMinutes :
            LET period == get_current_period(tr, t)
            IN  TimerInterval(NextUpdateMsec(tr, period, t, npw, wm))
                    = ClaimedDelay(tr, period, t, npw, wm)

\* The two delays the specification works out for its example table.
ExampleDelays ==
    \A npw \in BOOLEAN, wm \in WarningMinutes :
        /\ TimerInterval(NextUpdateMsec(ExampleTable, 1, QTime(9, 49, 0, 0), npw, wm)) = 60000
        /\ TimerInterval(NextUpdateMsec(ExampleTable, 1, QTime(9, 49, 30, 0), npw, wm)) = 31000

\* C4: set_next_update_timer arms the timer with the minimum of the 60000 ms
\* baseline, (ms to the active period's end + 1000), (ms to the next period's
\* start + 1000) and, with the warning enabled, (ms to start - warning_minutes
\* + 500), each only when its remaining time is > 0, clamped to
\* [1000, 600000]; for {1: 09:00-09:50, 2: 10:00-10:50} that is 60000 at
\* 09:49:00 and 31000 at 09:49:30.
C4_ArmedDelayIsMinimum ==
    /\ step \in EvalSteps =>
        armed = ClaimedDelay(time_ranges, current_period, now,
                             next_period_warning, warning_minutes)
    /\ ClaimedDelayOnAllTables
    /\ ExampleDelays

\* C4 witness: the evaluation at 09:49:30 of the example table armed 31000 ms.
C4_Witness ==
    /\ step \in EvalSteps
    /\ time_ranges = ExampleTable
    /\ now = QTime(9, 49, 30, 0)
    /\ current_period = 1
    /\ armed = 31000

\* Period values an evaluation can hold.
PeriodValues == { None } \cup (1 .. LastPeriod)

\* The interval on every table, at every instant around its boundaries, for
\* every value of the active period and every notification policy.
IntervalWithinClampOnAllTables ==
    \A tr \in Tables :
        \A t \in CheckTimes(tr), period \in PeriodValues,
           npw \in BOOLEAN, wm \in WarningMinutes :
            LET interval == TimerInterval(NextUpdateMsec(tr, period, t, npw, wm))
            IN  interval > 0 /\ interval >= 1000 /\ interval <= 600000

\* C5: for every current time, table, active period and notification policy
\* the interval set_next_update_timer passes to the timer is > 0, at least
\* 1000 ms and at most 600000 ms.
C5_IntervalWithinClamp ==
    /\ step \in EvalSteps => (armed > 0 /\ armed >= 1000 /\ armed <= 600000)
    /\ IntervalWithinClampOnAllTables

\* C5 witness: 200 ms before the warning threshold the warning term (700 ms)
\* is the minimum and the timer is armed with the lower clamp.
C5_Witness ==
    /\ step \in EvalSteps
    /\ next_period_warning
    /\ NextUpdateMsec(time_ranges, current_period, now,
                      next_period_warning, warning_minutes) = 700
    /\ armed = 1000

\* The end of the period the last evaluation reported active.
CurrentEnd == RangeGet(time_ranges, current_period, "end")

\* C6: when an evaluation has reported period p active, the first evaluation
\* taking place after p.end occurs no later than 1000 ms after p.end.
C6_EndObservedWithinMargin ==
    [][ ( /\ pc = "running"
          /\ current_period # None
          /\ step' \in EvalSteps
          /\ now <= CurrentEnd
          /\ now' > CurrentEnd )
        => now' <= CurrentEnd + 1000
      ]_vars

\* C7: for every period q of the table, while the widget is running the
\* first evaluation at or after q.start occurs no later than 1000 ms after
\* q.start.
C7_StartObservedWithinMargin ==
    [][ ( pc = "running" /\ step' \in EvalSteps )
        => \A i \in DOMAIN time_ranges :
              ( now < time_ranges[i].start /\ time_ranges[i].start <= now' )
                  => now' <= time_ranges[i].start + 1000
      ]_vars

\* C8: check_notifications is invoked on every evaluation whose changed
\* signal is true and on every scheduled timer wakeup.
C8_DispatcherOnEveryWakeup ==
    /\ (step \in EvalSteps /\ changed) => notified # << >>
    /\ step = "timeout" => notified # << >>

\* C9: after every evaluation, the one of construction included, the timer
\* whose timeout triggers the next evaluation is armed with the duration
\* set_next_update_timer computed for that evaluation.
C9_TimerArmedWithComputedDelay ==
    pc = "running" =>
        /\ timer.active
        /\ timer.connected
        /\ timer.interval = armed

\* C10: after every evaluation the timer connected to update_current_period
\* is active with an interval of at most 600000 ms, and the next evaluation
\* takes place: the evaluations go on to the end of the observed window.
C10_SchedulerNeverStops ==
    /\ [](pc = "running" =>
            /\ timer.active
            /\ timer.connected
            /\ timer.interval > 0
            /\ timer.interval <= 600000)
    /\ [][ step' = "timeout" => now' - now <= 600000 ]_vars
    /\ <>(pc = "running" /\ now + timer.interval > WindowEnd)

\* C10 witness: a timer wakeup has evaluated and left the timer armed.
C10_Witness ==
    /\ step = "timeout"
    /\ timer.active
    /\ timer.connected
    /\ now + timer.interval <= WindowEnd

\* The runs of one weekday: the weekday plays no part in the timer.
MondayInit == Init /\ today = 0

\* The event loop delivers the timeout of an active timer, and __init__ runs
\* to its end.
FairSpec ==
    MondayInit /\ [][Next]_vars /\ WF_vars(TimerTimeout) /\ WF_vars(Construct)

(* ------------------------------------------------------------------ *)
(* Day index, idle state and table edits                                *)
(* ------------------------------------------------------------------ *)

\* C11: after every evaluation current_day_idx is None on Saturday and
\* Sunday, whatever the time of day, and weekday + 1 (1 = Monday .. 5 =
\* Friday) otherwise; it is the day index passed to check_notifications.
C11_DayIndexNoneOnWeekend ==
    step \in EvalSteps =>
        /\ today \in {5, 6} => current_day_idx = None
        /\ today \in 0 .. 4 => current_day_idx = today + 1
        /\ \A i \in DOMAIN notified : notified[i][2] = current_day_idx

\* C11 witness: an evaluation on a Saturday inside a period passed the day
\* index None to check_notifications.
C11_Witness ==
    /\ step \in EvalSteps
    /\ today = 5
    /\ current_period # None
    /\ current_day_idx = None
    /\ notified = << << current_period, None >> >>

\* C12: after every evaluation on a weekend day the scheduler is Idle
\* (current_period is None), as it is when no period contains now; it is
\* InPeriod(p) only when p's interval contains now on a weekday.
C12_IdleOnWeekend ==
    step \in EvalSteps =>
        /\ today \in {5, 6} => current_period = None
        /\ Containing(time_ranges, now) = {} => current_period = None
        /\ current_period # None =>
              /\ today \in 0 .. 4
              /\ \E i \in Containing(time_ranges, now) :
                    time_ranges[i].period = current_period

\* C20: when the time-range dialog is accepted update_current_period runs
\* at once: afterwards current_period is get_current_period(now) on the new
\* table and the timer is re-armed from the new table; every evaluation
\* takes the period and the delay from one and the same table.
C20_EvaluatedOnNewTable ==
    /\ step = "time_dialog" =>
        /\ current_period = get_current_period(time_ranges, now)
        /\ timer.active
        /\ timer.interval = TimerInterval(NextUpdateMsec(time_ranges, current_period, now,
                                next_period_warning, warning_minutes))
    /\ step \in EvalSteps =>
        /\ current_period = get_current_period(time_ranges, now)
        /\ armed = TimerInterval(NextUpdateMsec(time_ranges, current_period, now,
                                next_period_warning, warning_minutes))

\* C20 witness: the dialog replaced the table by one on which another period
\* is active, and the evaluation signalled the change.
C20_Witness ==
    /\ step = "time_dialog"
    /\ time_ranges = AheadTable
    /\ changed
    /\ current_period = 1

(* ------------------------------------------------------------------ *)
(* The settings store: timetable data and the persisted table           *)
(* ------------------------------------------------------------------ *)

\* show_timetable_edit_dialog, accepted: the dialog has handed the edited
\* timetable to update_timetable_data, update_timetable_display shows it.
ShowTimetableEditDialog ==
    /\ pc = "running"
    /\ timetable_data' \in EditedTimetables \ { timetable_data }
    /\ notified' = << >>
    /\ styled' = FALSE
    /\ highlighted' = highlighted
    /\ step' = "timetable_dialog"
    /\ UNCHANGED << time_ranges, next_period_warning, warning_minutes, now, today,
                    current_period, current_day_idx, timer, pc, changed, armed,
                    dialogs, time_file, load_error, loads, pointer_vars, backup_vars, exit_vars >>

\* The scheduler together with edits of the timetable data.
FrameNext == Next \/ ShowTimetableEditDialog

FrameSpec == MondayInit /\ [][FrameNext]_vars

\* C15: an evaluation never fails and has no side effect on its inputs:
\* it leaves the schedule table (the one in force when it runs), the
\* timetable data and the notification policy unchanged, and a now that
\* matches no period yields None, with the timer armed as usual.
C15_EvaluationFrame ==
    [][ step' \in EvalSteps =>
          /\ step' # "time_dialog" => time_ranges' = time_ranges
          /\ step' = "time_dialog" => time_ranges' \in AcceptedTables(time_ranges)
          /\ timetable_data' = timetable_data
          /\ next_period_warning' = next_period_warning
          /\ warning_minutes' = warning_minutes
          /\ Containing(time_ranges', now') = {} =>
                /\ current_period' = None
                /\ armed' \in MinUpdateMsec .. MaxUpdateMsec
       ]_vars

\* C15 witness: with a timetable entered, an evaluation in a gap found no
\* period and armed the timer.
C15_Witness ==
    /\ step = "timeout"
    /\ timetable_data # NoTimetable
    /\ Containing(time_ranges, now) = {}
    /\ current_period = None
    /\ timer.active

\* Runs of load_time_settings in one behaviour.
MaxLoads == 1

\* The settings store before a load: the table in memory and any of the
\* contents of the time settings file.
LoadInit ==
    /\ WidgetInit
    /\ today = 0
    /\ next_period_warning = TRUE
    /\ warning_minutes = 5
    /\ timetable_data = NoTimetable
    /\ time_file \in TimeFiles
    /\ load_error = FALSE
    /\ loads = 0
    /\ GeometryInit(DefaultPositionFile)
    /\ BackupInit({ "widget_settings.json" })
    /\ ExitInit("cleanup_resources")

\* load_time_settings: from SettingsManager.__init__ over the defaults
\* (before the widget is constructed) or from restore_backup while running.
LoadTimeSettings ==
    /\ loads < MaxLoads
    /\ LET loaded == load_time_settings(time_ranges, time_file)
       IN  /\ time_ranges' = loaded.time_ranges
           /\ load_error' = loaded.raised
    /\ loads' = loads + 1
    /\ notified' = << >>
    /\ step' = "load"
    /\ UNCHANGED << next_period_warning, warning_minutes, now, today, current_period,
                    current_day_idx, timer, pc, changed, styled, highlighted, armed, dialogs,
                    timetable_data, time_file, pointer_vars, backup_vars, exit_vars >>

LoadNext ==
    \/ LoadTimeSettings
    \/ Construct
    \/ TimerTimeout

LoadSpec == LoadInit /\ [][LoadNext]_vars

\* C13: if loading the persisted table fails (unreadable file, invalid
\* JSON, or an entry that cannot be parsed part-way through the file) the
\* in-memory table is left exactly as it was before the load attempt.
C13_FailedLoadKeepsTable ==
    [][ (step' = "load" /\ load_error') => time_ranges' = time_ranges ]_vars

\* The period ids 1..LastPeriod whose entry in the file is malformed (it
\* raises, or it holds a time out of range) or missing from a readable file.
UndefinedPeriods(file) ==
    IF ~(file.exists /\ file.json) THEN {}
    ELSE { p \in 1 .. LastPeriod :
             LET hits == { i \in DOMAIN file.items :
                             /\ ~int_raises(file.items[i].key)
                             /\ int(file.items[i].key) = p }
             IN  \/ hits = {}
                 \/ \E i \in hits :
                       \/ entry_raises(file.items[i])
                       \/ hour_min_time(GetItem(file.items[i].value, "start")) = NullTime
                       \/ hour_min_time(GetItem(file.items[i].value, "end")) = NullTime }

\* C14: a period whose persisted entry is malformed or missing is treated
\* as undefined: after loading, get_current_period never returns its id
\* for any now.
C14_MalformedEntryUndefined ==
    step = "load" =>
        \A p \in UndefinedPeriods(time_file) :
            \A t \in CheckTimes(time_ranges) :
                t >= 0 => get_current_period(time_ranges, t) # p

(* ------------------------------------------------------------------ *)
(* Position, size and the position lock                                 *)
(* ------------------------------------------------------------------ *)

\* The settings dialog applied with the size and lock boxes edited, the
\* notification policy as it was.
ApplySizeSettings ==
    /\ pc = "running"
    /\ ~pressed
    /\ \E width \in SpinWidths, height \in SpinHeights, locked \in BOOLEAN :
        apply_settings(next_period_warning, warning_minutes, width, height, locked)

\* One widget on a Monday morning, started on any of the settings files.
PointerInit ==
    /\ WidgetInit
    /\ time_ranges = ExampleTable
    /\ now = WindowStart
    /\ today = 0
    /\ next_period_warning = TRUE
    /\ warning_minutes = 5
    /\ StoreInit
    /\ \E file \in PositionFiles : GeometryInit(file)
    /\ BackupInit({ "widget_settings.json" })
    /\ ExitInit("cleanup_resources")

PointerNext ==
    \/ Construct
    \/ MousePress
    \/ MouseMove
    \/ MouseRelease
    \/ TogglePositionLock
    \/ ResetWidgetPosition
    \/ ApplySizeSettings

PointerSpec == PointerInit /\ [][PointerNext]_vars

\* The mouse events of the widget.
MouseSteps == { "press", "move", "release" }

\* C16: while is_position_locked is true no mouse press, move or release
\* moves the widget: a press never enters dragging, a move never calls
\* move() (also when a drag was started before the lock was turned on),
\* and the size changes only in a resize begun by a press in the
\* bottom-right 20 x 20 px corner.
C16_LockedWidgetNeverMoves ==
    [][ (is_position_locked /\ step' \in MouseSteps) =>
          /\ pos' = pos
          /\ ~moved'
          /\ dragging' => dragging
          /\ size' # size => (resizing /\ step' = "move")
          /\ (resizing' /\ ~resizing) => (step' = "press" /\ InCorner(pointer', pos, size))
       ]_vars

\* C16 witness: a drag was under way when the lock was turned on, and the
\* next move with the button held left the widget where it was.
C16_Witness ==
    /\ is_position_locked
    /\ step = "move"
    /\ pressed
    /\ dragging
    /\ ~moved

\* C18: once 'reset position' was confirmed and Apply or OK pressed, the
\* widget is at Config.DEFAULT_WINDOW_POSITION and that position is the
\* persisted one, and it stays so (a mouse release without dragging
\* included) until the widget is dragged.
C18_ResetPositionApplied ==
    reset = "applied" =>
        /\ pos = DEFAULT_WINDOW_POSITION
        /\ position_file.exists
        /\ position_file.position = DEFAULT_WINDOW_POSITION

\* Saved positions, sizes and screens apply_saved_position is checked on.
SavedPositions ==
    { Point(px, py) : px \in { 0 - 700, 0 - 1, 0, 100, 399, 400, 799, 1500 },
                      py \in { 0 - 50, 0, 299, 300, 5000 } }

SavedSizes ==
    { Size(w, h) : w \in { 200, 400, 640, 800, 801, 1000 }, h \in { 150, 300, 480, 601 } }

SavedScreenInfos ==
    { NoScreenInfo, ScreenInfo(ScreenA), ScreenInfo(ScreenB), ScreenInfo(ScreenBLeft),
      ScreenInfo(Screen("C", Rect(0, 0, 1024, 768))),
      ScreenInfo(Screen("B", Rect(0, 0, 800, 600))) }

\* The saved screen is among the connected ones, by geometry or by name.
Connected(screen_info, screens) ==
    /\ screen_info.present
    /\ \E i \in DOMAIN screens :
          \/ screens[i].geometry = screen_info.geometry
          \/ screens[i].name = screen_info.name

\* apply_saved_position on every saved position, size, screen and layout:
\* the position lies inside [left, max(left, right - width)] x
\* [top, max(top, bottom - height)] of the target screen, a widget that
\* does not fit is pinned to the left / top edge, a saved position inside
\* the range is kept, a widget of at least the minimum size that fits ends
\* inside the screen, and the target is a connected screen with the saved
\* geometry or name, else the primary screen.
ClampedOnAllScreens ==
    \A screens \in ScreenLayouts, info \in SavedScreenInfos,
       position \in SavedPositions, sz \in SavedSizes :
        LET placed == apply_saved_position(position, sz, info, screens)
            target == TargetScreen(info, screens)
            g == target.geometry
        IN  /\ Left(g) <= placed.x
            /\ placed.x <= max(Left(g), Right(g) - sz.width)
            /\ Top(g) <= placed.y
            /\ placed.y <= max(Top(g), Bottom(g) - sz.height)
            /\ sz.width > g.width => placed.x = Left(g)
            /\ sz.height > g.height => placed.y = Top(g)
            /\ (Left(g) <= position.x /\ position.x <= Right(g) - sz.width) =>
                    placed.x = position.x
            /\ (Top(g) <= position.y /\ position.y <= Bottom(g) - sz.height) =>
                    placed.y = position.y
            /\ (MinimumWidth <= sz.width /\ sz.width <= g.width) =>
                    placed.x + Resized(sz.width, sz.height).width - 1 <= Right(g)
            /\ (MinimumHeight <= sz.height /\ sz.height <= g.height) =>
                    placed.y + Resized(sz.width, sz.height).height - 1 <= Bottom(g)
            /\ placed.width = sz.width /\ placed.height = sz.height
            /\ \E i \in DOMAIN screens : screens[i] = target
            /\ IF Connected(info, screens)
               THEN target.geometry = info.geometry \/ target.name = info.name
               ELSE target = primaryScreen(screens)

CreateBackup ==
    /\ Cardinality(backups) < MaxBackups
    /\ \E backup_name \in BackupNames, fail \in Failures :
        /\ fail.stage = "copy" => fail.file \in settings_files
        /\ LET made == create_backup(settings_files, backups, backup_name, fail)
           IN  /\ backups' = made.backups
               /\ backup_result' = [ok |-> made.ok, value |-> made.value]
        /\ backup_call' = [backup_name |-> backup_name, fail |-> fail]
    /\ notified' = << >>
    /\ step' = "create_backup"
    /\ UNCHANGED << time_ranges, next_period_warning, warning_minutes, now, today,
                    current_period, current_day_idx, timer, pc, changed, styled, highlighted, armed,
                    dialogs, store_vars, pointer_vars, settings_files, exit_vars >>

\* A save_* method of the settings manager writes one of the settings
\* files for the first time.
SaveSettingsFile ==
    /\ \E i \in DOMAIN files_to_backup :
        /\ files_to_backup[i] \notin settings_files
        /\ settings_files' = settings_files \cup { files_to_backup[i] }
    /\ notified' = << >>
    /\ step' = "save_settings"
    /\ UNCHANGED << time_ranges, next_period_warning, warning_minutes, now, today,
                    current_period, current_day_idx, timer, pc, changed, styled, highlighted, armed,
                    dialogs, store_vars, pointer_vars, backups, backup_call,
                    backup_result, exit_vars >>

\* The settings manager with any of the settings files present.
BackupSpecInit ==
    /\ WidgetInit
    /\ time_ranges = ExampleTable
    /\ now = WindowStart
    /\ today = 0
    /\ next_period_warning = TRUE
    /\ warning_minutes = 5
    /\ StoreInit
    /\ GeometryInit(DefaultPositionFile)
    /\ \E files \in SUBSET { files_to_backup[i] : i \in DOMAIN files_to_backup } :
          BackupInit(files)
    /\ ExitInit("cleanup_resources")

BackupNext ==
    \/ CreateBackup
    \/ SaveSettingsFile

BackupSpec == BackupSpecInit /\ [][BackupNext]_vars

\* C17: create_backup, for a supplied non-empty backup_name as for the
\* default timestamp name, copies the existing settings files into
\* backups/<name>, writes description.txt and returns (True, backup_path);
\* it returns (False, message) only when a file operation fails.
C17_BackupCreated ==
    step = "create_backup" =>
        LET name == IF backup_call.backup_name = "" THEN TimestampName
                    ELSE backup_call.backup_name
        IN  /\ backup_call.fail = NoFailure =>
                /\ backup_result = [ok |-> TRUE, value |-> name]
                /\ \E b \in backups :
                      /\ b.name = name
                      /\ settings_files \subseteq b.files
                      /\ b.description
            /\ ~backup_result.ok => backup_call.fail # NoFailure

(* ------------------------------------------------------------------ *)
(* The range of the timer interval                                      *)
(* ------------------------------------------------------------------ *)

\* next_update_msec before the warning term is taken into the minimum.
BeforeWarningTerm(tr, period, t) ==
    AfterStartTerm(tr, NextPeriod(period), t, AfterEndTerm(tr, period, t, BaselineMsec))

\* The interval is at most the baseline, and it is below 1001 ms only when
\* the warning term is the minimum (below the end and start terms) and has
\* been raised to 1000 ms: on every table, at every instant around its
\* boundaries and at the start times (one of them 200 ms before a warning
\* threshold), for every value of the active period and every
\* notification policy.
IntervalRangeOnAllTables ==
    \A tr \in Tables :
        \A t \in CheckTimes(tr), period \in PeriodValues,
           npw \in BOOLEAN, wm \in WarningMinutes :
            LET msec == NextUpdateMsec(tr, period, t, npw, wm)
                interval == TimerInterval(msec)
                m2 == BeforeWarningTerm(tr, period, t)
            IN  /\ interval <= BaselineMsec
                /\ min(msec, MaxUpdateMsec) = msec
                /\ m2 >= 1001
                /\ interval < 1001 =>
                      /\ npw
                      /\ msec = AfterWarningTerm(tr, NextPeriod(period), t, npw, wm, m2)
                      /\ msec < m2
                      /\ interval = 1000

\* C25: the interval set by set_next_update_timer never exceeds the 60000
\* ms baseline (the 600000 ms clamp never changes the result), and it is
\* below 1001 ms only when the warning term (ms until the warning
\* threshold + 500) is the minimum, which is then raised to 1000 ms.
C25_IntervalAtMostBaseline ==
    /\ IntervalRangeOnAllTables
    /\ step \in EvalSteps =>
          /\ armed <= BaselineMsec
          /\ armed < 1001 =>
                /\ armed = 1000
                /\ next_period_warning
                /\ NextUpdateMsec(time_ranges, current_period, now,
                                  next_period_warning, warning_minutes)
                      < BeforeWarningTerm(time_ranges, current_period, now)

\* C25 witness: an evaluation 200 ms before the warning threshold, where the
\* end and start terms are above 1000 ms and the warning term of 700 ms was
\* raised to 1000 ms.
C25_Witness ==
    /\ step = "construct"
    /\ armed = 1000
    /\ BeforeWarningTerm(time_ranges, current_period, now) > 1000
    /\ AfterWarningTerm(time_ranges, NextPeriod(current_period), now,
                        next_period_warning, warning_minutes, BaselineMsec) = 700

(* ------------------------------------------------------------------ *)
(* The interaction states Idle, Dragging, Resizing                      *)
(* ------------------------------------------------------------------ *)

\* show_context_menu while the left button is held (a right click during a
\* drag or resize): menu.exec_ opens a popup that takes the mouse, so the
\* release of the left button goes to the menu and handle_mouse_release
\* is not called.
ShowContextMenu ==
    /\ pc = "running" /\ reset # "pending"
    /\ events < MaxEvents
    /\ pressed
    /\ pressed' = FALSE
    /\ events' = events + 1
    /\ notified' = << >>
    /\ step' = "context_menu"
    /\ UNCHANGED << scheduler_kept, styled, highlighted, pos, size, pointer, mixin_vars,
                    is_position_locked, saved_vars, moved, reset >>

\* The pointer events together with the context menu.
InteractionNext == PointerNext \/ ShowContextMenu

InteractionSpec == PointerInit /\ [][InteractionNext]_vars

\* C26: dragging and resizing are never both true after any sequence of
\* handle_mouse_press, handle_mouse_move and handle_mouse_release (the
\* widget is in exactly one of Idle, Dragging, Resizing), and a left
\* release returns it to Idle and persists the widget's position and size.
C26_OneInteractionState ==
    /\ ~(dragging /\ resizing)
    /\ step = "release" =>
          /\ ~dragging /\ ~resizing
          /\ position_file.exists
          /\ position_file.position = pos
          /\ position_file.size = size

(* ------------------------------------------------------------------ *)
(* What apply_settings leaves alone                                     *)
(* ------------------------------------------------------------------ *)

\* C27: apply_settings changes only what the dialog edits: the persisted
\* screen_info recorded by the widget's last save_widget_position is left
\* unchanged, as are the schedule table and the timetable data.
C27_ApplyKeepsScreenInfo ==
    [][ step' = "apply_settings" =>
          /\ widget_screen_info' = widget_screen_info
          /\ position_file'.exists => position_file'.screen_info = widget_screen_info
          /\ time_ranges' = time_ranges
          /\ timetable_data' = timetable_data
       ]_vars

(* ------------------------------------------------------------------ *)
(* Saving and reloading the schedule table                              *)
(* ------------------------------------------------------------------ *)

\* save_time_settings: the table in memory is written to the file.
SaveTimeSettings ==
    /\ time_file' = save_time_settings(time_ranges)
    /\ time_file' # time_file
    /\ notified' = << >>
    /\ step' = "save"
    /\ UNCHANGED << time_ranges, next_period_warning, warning_minutes, now, today,
                    current_period, current_day_idx, timer, pc, changed, styled, highlighted, armed,
                    dialogs, timetable_data, load_error, loads, pointer_vars,
                    backup_vars, exit_vars >>

RoundTripNext == LoadNext \/ SaveTimeSettings

RoundTripSpec == LoadInit /\ [][RoundTripNext]_vars

\* Period ids are integers 1..LastPeriod and all times are valid times of
\* day on a full minute.
MinuteResolution(tr) ==
    \A i \in DOMAIN tr :
        /\ tr[i].period \in 1 .. LastPeriod
        /\ 0 <= tr[i].start /\ tr[i].start < MSECS_PER_DAY /\ tr[i].start % 60000 = 0
        /\ 0 <= tr[i].end /\ tr[i].end < MSECS_PER_DAY /\ tr[i].end % 60000 = 0

PeriodIds(tr) == { tr[i].period : i \in DOMAIN tr }

\* The file has the form {"<id>": {"start": "HH:MM", "end": "HH:MM"}}.
PersistedForm(file) ==
    /\ file.exists /\ file.json
    /\ \A i \in DOMAIN file.items :
        LET item == file.items[i]
        IN  /\ ~int_raises(item.key)
            /\ Len(item.value) = 2
            /\ item.value[1].name = "start" /\ item.value[2].name = "end"
            /\ \A k \in 1 .. 2 :
                  /\ Len(item.value[k].text) = 5
                  /\ item.value[k].text[3] = ":"
                  /\ \A c \in { 1, 2, 4, 5 } : IsDigit(item.value[k].text[c])

\* Tables with times through the day, beside the tables of the window.
RoundTripTables ==
    Tables \cup
    { << Entry(1, QTime(0, 0, 0, 0), QTime(0, 59, 0, 0)),
         Entry(7, QTime(13, 5, 0, 0), QTime(23, 59, 0, 0)) >>,
      << Entry(5, QTime(8, 30, 0, 0), QTime(12, 0, 0, 0)) >> }

\* Saving any table and loading the file, over the same table in memory
\* or over another one (the defaults of a new start): nothing raises, the
\* file has the persisted form, every saved period comes back with its
\* start and end, the ids are those saved and those held before the load,
\* and over the same table the result is that table.
RoundTripOnAllTables ==
    \A tr \in RoundTripTables, held \in RoundTripTables :
        LET file == save_time_settings(tr)
            loaded == load_time_settings(held, file)
        IN  /\ MinuteResolution(tr)
            /\ PersistedForm(file)
            /\ Len(file.items) = Len(tr)
            /\ ~loaded.raised
            /\ \A i \in DOMAIN tr :
                  /\ int(file.items[i].key) = tr[i].period
                  /\ RangeGet(loaded.time_ranges, tr[i].period, "start") = tr[i].start
                  /\ RangeGet(loaded.time_ranges, tr[i].period, "end") = tr[i].end
            /\ PeriodIds(loaded.time_ranges) = PeriodIds(tr) \cup PeriodIds(held)
            /\ PeriodIds(held) \subseteq PeriodIds(tr) =>
                  PeriodIds(loaded.time_ranges) = PeriodIds(tr)
            /\ held = tr => loaded.time_ranges = tr

\* C21: save_time_settings followed by load_time_settings is a round trip:
\* for a table with integer ids and times on full minutes the reloaded
\* table has the same ids and the same start and end times as before
\* saving, and the file has the form {"<id>": {"start": "HH:MM", "end":
\* "HH:MM"}}.
C21_SaveLoadRoundTrip ==
    [][ /\ RoundTripOnAllTables
        /\ (step = "save" /\ step' = "load" /\ MinuteResolution(time_ranges)) =>
              /\ PersistedForm(time_file)
              /\ ~load_error'
              /\ time_ranges' = time_ranges
      ]_vars

\* C21 witness: a table was saved and then reloaded from the file it wrote.
C21_Witness ==
    /\ step = "load"
    /\ time_ranges # << >>
    /\ time_file = save_time_settings(time_ranges)
    /\ ~load_error

(* ------------------------------------------------------------------ *)
(* The highlight across days                                            *)
(* ------------------------------------------------------------------ *)

\* The timer's timeout signal handled on the following day, at the time of
\* day it was due: the machine was suspended, or the clock was set, while
\* the timer was pending.
TimerTimeoutNextDay ==
    /\ pc = "running"
    /\ timer.active /\ timer.connected
    /\ now + timer.interval <= WindowEnd
    /\ today' = (today + 1) % 7
    /\ update_current_period_on(time_ranges, now + timer.interval, timer, today')
    /\ timer' = set_next_update_timer(timer, time_ranges, current_period',
                    now + timer.interval, next_period_warning, warning_minutes)
    /\ step' = "timeout_next_day"
    /\ UNCHANGED << pc, dialogs, time_file, load_error, loads, pointer_vars,
                    backup_vars, exit_vars >>

\* The widget left running over several days.
DayNext ==
    \/ Construct
    \/ TimerTimeout
    \/ TimerTimeoutNextDay

DaySpec == Init /\ [][DayNext]_vars

\* C23: after every completed update_current_period the highlighted cells
\* are exactly {(current_period, current_day_idx)} when both are set and
\* none otherwise, also when the day index changed while the active period
\* stayed the same, and on a weekend.
C23_HighlightFollowsDay ==
    step \in { "construct", "timeout", "timeout_next_day", "time_dialog" } =>
        highlighted = IF current_period # None /\ current_day_idx # None
                      THEN { << current_period, current_day_idx >> }
                      ELSE {}

(* ------------------------------------------------------------------ *)
(* Leaving the application                                              *)
(* ------------------------------------------------------------------ *)

\* Signals handled in one run.
MaxSignals == 1

\* What Widget.cleanup_on_close can hold: None (widget.py line 137, a
\* widget started without ApplicationManager), cleanup_resources (main.py
\* line 348), or a callable that raises an Exception.
Callbacks == { "none", "cleanup_resources", "raising" }

Frame(fn, at) == [fn |-> fn, at |-> at]

Innermost == stack[Len(stack)]

Popped == SubSeq(stack, 1, Len(stack) - 1)

\* A call of cleanup_resources about to test _cleanup_done.
CleanupCall == Frame("cleanup_resources", "entry")

\* What the exit machinery leaves alone.
widget_kept ==
    << time_ranges, next_period_warning, warning_minutes, now, today, current_period,
       current_day_idx, timer, pc, changed, styled, highlighted, armed, dialogs,
       store_vars, pointer_vars, backup_vars >>

\* closeEvent up to the call of the callback (lines 552-560).
CloseEvent ==
    /\ pc = "running" /\ phase = "loop" /\ stack = << >> /\ ~quit_requested
    /\ CASE cleanup_on_close = "none" ->
              /\ stack' = << Frame("closeEvent", "quit") >>
              /\ trace' = << >>
         [] cleanup_on_close = "cleanup_resources" ->
              /\ stack' = << Frame("closeEvent", "quit"), CleanupCall >>
              /\ trace' = << "callback" >>
         [] cleanup_on_close = "raising" ->
              /\ stack' = << Frame("closeEvent", "except") >>
              /\ trace' = << "callback" >>
    /\ notified' = << >>
    /\ step' = "close_event"
    /\ UNCHANGED << widget_kept, cleanup_on_close, cleanup_done, cleanup_runs, phase,
                    quit_requested, signals, finished >>

\* A closeEvent whose except branch ignores the event and asks for no quit.
CloseEventQuitIgnoringOnError ==
    /\ stack # << >> /\ Innermost.fn = "closeEvent"
    /\ stack' = Popped
    /\ quit_requested' = (quit_requested \/ Innermost.at = "quit")
    /\ trace' = IF Innermost.at = "quit" THEN trace \o << "quit", "accept" >>
                ELSE Append(trace, "ignore")
    /\ finished' = (finished \/ cleanup_on_close = "cleanup_resources")
    /\ notified' = << >>
    /\ step' = "close_event_done"
    /\ UNCHANGED << widget_kept, cleanup_on_close, cleanup_done, cleanup_runs, phase,
                    signals >>

\* closeEvent after the callback: quit() and event.accept(), on the straight
\* path (lines 562-564) as in the except branch (lines 566-571).
CloseEventQuit ==
    /\ stack # << >> /\ Innermost.fn = "closeEvent"
    /\ stack' = Popped
    /\ quit_requested' = TRUE
    /\ trace' = trace \o << "quit", "accept" >>
    /\ finished' = (finished \/ cleanup_on_close = "cleanup_resources")
    /\ notified' = << >>
    /\ step' = "close_event_done"
    /\ UNCHANGED << widget_kept, cleanup_on_close, cleanup_done, cleanup_runs, phase,
                    signals >>

\* cleanup_resources, lines 200-204: return when _cleanup_done is set, the
\* body begins otherwise.
CleanupEnter ==
    /\ stack # << >> /\ Innermost = CleanupCall
    /\ IF cleanup_done
       THEN stack' = Popped /\ cleanup_runs' = cleanup_runs
       ELSE /\ stack' = Append(Popped, Frame("cleanup_resources", "body"))
            /\ cleanup_runs' = cleanup_runs + 1
    /\ notified' = << >>
    /\ step' = "cleanup_enter"
    /\ UNCHANGED << widget_kept, cleanup_on_close, cleanup_done, phase, quit_requested,
                    trace, signals, finished >>

\* cleanup_resources, lines 206-279: the body ends and sets _cleanup_done.
CleanupFinish ==
    /\ stack # << >> /\ Innermost = Frame("cleanup_resources", "body")
    /\ stack' = Popped
    /\ cleanup_done' = TRUE
    /\ notified' = << >>
    /\ step' = "cleanup_finish"
    /\ UNCHANGED << widget_kept, cleanup_on_close, cleanup_runs, phase, quit_requested,
                    trace, signals, finished >>

\* safe_exit (the tray's exit action) up to the call of cleanup_resources.
SafeExit ==
    /\ pc = "running" /\ phase = "loop" /\ stack = << >> /\ ~quit_requested
    /\ stack' = << Frame("safe_exit", "quit"), CleanupCall >>
    /\ notified' = << >>
    /\ step' = "safe_exit"
    /\ UNCHANGED << widget_kept, cleanup_on_close, cleanup_done, cleanup_runs, phase,
                    quit_requested, trace, signals, finished >>

\* safe_exit after cleanup_resources: QApplication.instance().quit().
SafeExitQuit ==
    /\ stack # << >> /\ Innermost = Frame("safe_exit", "quit")
    /\ stack' = Popped
    /\ quit_requested' = TRUE
    /\ finished' = TRUE
    /\ notified' = << >>
    /\ step' = "safe_exit_done"
    /\ UNCHANGED << widget_kept, cleanup_on_close, cleanup_done, cleanup_runs, phase,
                    trace, signals >>

\* quit() was requested: the event loop leaves and emits aboutToQuit, whose
\* slot is cleanup_resources (line 337).
AboutToQuit ==
    /\ phase = "loop" /\ stack = << >> /\ quit_requested
    /\ phase' = "about_to_quit"
    /\ stack' = << CleanupCall >>
    /\ notified' = << >>
    /\ step' = "about_to_quit"
    /\ UNCHANGED << widget_kept, cleanup_on_close, cleanup_done, cleanup_runs,
                    quit_requested, trace, signals, finished >>

\* app.exec_() has returned: run calls cleanup_resources (lines 358-360).
RunTail ==
    /\ phase = "about_to_quit" /\ stack = << >>
    /\ phase' = "run_tail"
    /\ stack' = << CleanupCall >>
    /\ finished' = TRUE
    /\ notified' = << >>
    /\ step' = "run_tail"
    /\ UNCHANGED << widget_kept, cleanup_on_close, cleanup_done, cleanup_runs,
                    quit_requested, trace, signals >>

\* run returns the exit code and main leaves through sys.exit.
RunReturns ==
    /\ phase = "run_tail" /\ stack = << >>
    /\ phase' = "exiting"
    /\ finished' = TRUE
    /\ notified' = << >>
    /\ step' = "run_returns"
    /\ UNCHANGED << widget_kept, cleanup_on_close, cleanup_done, cleanup_runs, stack,
                    quit_requested, trace, signals >>

\* atexit runs final_cleanup, which calls cleanup_resources when
\* _cleanup_done is not set (lines 435-439).
FinalCleanup ==
    /\ phase = "exiting" /\ stack = << >>
    /\ phase' = "atexit"
    /\ stack' = IF cleanup_done THEN << >> ELSE << CleanupCall >>
    /\ notified' = << >>
    /\ step' = "final_cleanup"
    /\ UNCHANGED << widget_kept, cleanup_on_close, cleanup_done, cleanup_runs,
                    quit_requested, trace, signals, finished >>

\* final_cleanup has returned and the process is gone.
Exited ==
    /\ phase = "atexit" /\ stack = << >>
    /\ phase' = "exited"
    /\ finished' = TRUE
    /\ notified' = << >>
    /\ step' = "exited"
    /\ UNCHANGED << widget_kept, cleanup_on_close, cleanup_done, cleanup_runs, stack,
                    quit_requested, trace, signals >>

\* SIGINT, SIGTERM or SIGBREAK: the interpreter runs signal_handler between
\* two bytecodes of whatever the main thread is executing, on top of the
\* frames that are active; it calls cleanup_resources (lines 193-195).
SignalHandler ==
    /\ pc = "running" /\ phase # "exited"
    /\ signals < MaxSignals
    /\ signals' = signals + 1
    /\ stack' = stack \o << Frame("signal_handler", "exit"), CleanupCall >>
    /\ notified' = << >>
    /\ step' = "signal"
    /\ UNCHANGED << widget_kept, cleanup_on_close, cleanup_done, cleanup_runs, phase,
                    quit_requested, trace, finished >>

\* The frames below the top that can catch SystemExit: a cleanup_resources
\* body interrupted inside one of its bare except blocks (lines 207-209,
\* 272-275). `except Exception` (closeEvent, run, the other blocks of the
\* body) lets SystemExit pass.
Catchers ==
    { k \in 1 .. Len(stack) - 1 : stack[k] = Frame("cleanup_resources", "body") }

\* signal_handler after cleanup_resources: sys.exit(0) (line 196). The
\* SystemExit is caught by an interrupted body, which then goes on, or it
\* unwinds every frame; from the event loop the process then exits, or the
\* loop goes on when the binding only reports the exception.
SysExit ==
    /\ stack # << >> /\ Innermost = Frame("signal_handler", "exit")
    /\ \/ \E k \in Catchers :
             /\ stack' = SubSeq(stack, 1, k)
             /\ phase' = phase
       \/ /\ stack' = << >>
          /\ phase' = IF phase = "atexit" THEN "atexit" ELSE "exiting"
       \/ /\ phase \in { "loop", "about_to_quit" }
          /\ stack' = << >>
          /\ phase' = phase
    /\ finished' = TRUE
    /\ notified' = << >>
    /\ step' = "sys_exit"
    /\ UNCHANGED << widget_kept, cleanup_on_close, cleanup_done, cleanup_runs,
                    quit_requested, trace, signals >>

\* One widget, with any of the callbacks.
ExitSpecInit ==
    /\ WidgetInit
    /\ time_ranges = ExampleTable
    /\ now = WindowStart
    /\ today = 0
    /\ next_period_warning = TRUE
    /\ warning_minutes = 5
    /\ StoreInit
    /\ GeometryInit(DefaultPositionFile)
    /\ BackupInit({ "widget_settings.json" })
    /\ \E callback \in Callbacks : ExitInit(callback)

ExitNext ==
    \/ Construct
    \/ CloseEvent
    \/ CloseEventQuit
    \/ CleanupEnter
    \/ CleanupFinish
    \/ SafeExit
    \/ SafeExitQuit
    \/ AboutToQuit
    \/ RunTail
    \/ RunReturns
    \/ FinalCleanup
    \/ Exited
    \/ SignalHandler
    \/ SysExit

ExitSpec == ExitSpecInit /\ [][ExitNext]_vars

HasFrame(frames, fn) == \E k \in DOMAIN frames : frames[k].fn = fn

C24_CleanupAtMostOnce ==
    /\ cleanup_runs <= 1
    /\ finished => cleanup_done

====
